---- MODULE Spec2Model ----
(***************************************************************************)
(* SecureX security-scanner edge function.                                 *)
(*                                                                         *)
(* The handler of supabase/functions/security-scanner (the version with    *)
(* authentication, request validation and ownership checks) is modelled as *)
(* one process per invocation whose steps are the awaited calls of the     *)
(* code.  The store is the three tables of the migration with their CHECK, *)
(* NOT NULL and foreign-key constraints.  The completion API is an oracle  *)
(* whose answer is drawn from a set of representative responses.           *)
(*                                                                         *)
(* Text is modelled as a sequence of tokens: a fence of three backticks,   *)
(* the word json, another language tag, a run of whitespace, prose, and    *)
(* one token per JSON document of JsonValue.                               *)
(***************************************************************************)
EXTENDS Integers, Sequences, FiniteSets, TLC

\* ------------------------------------------------------------------ bounds

\* Number of handler invocations in a behaviour.
MaxInvocations == 2

Invocations == 1..MaxInvocations

\* ------------------------------------------------------- optional values

\* SQL NULL / JavaScript undefined is the empty sequence, a value v is <<v>>.
Null == <<>>

Some(v) == <<v>>

\* ------------------------------------------------------------- the store

\* Status sets of the CHECK constraints.
ApplicationStatuses == {"pending", "scanning", "completed", "failed"}

ScanStatuses == {"pending", "running", "completed", "failed"}

RiskLevels == {"critical", "high", "medium", "low", "secure"}

Severities == {"critical", "high", "medium", "low", "info"}

VulnerabilityStatuses == {"open", "acknowledged", "fixed", "false_positive"}

\* Rows the presentation layer created before any invocation: two
\* applications of different owners, two scans of the first and one of the
\* second, all pending.
InitApplications ==
    [a \in {"a1", "a2"} |->
        [user_id |-> IF a = "a1" THEN "u1" ELSE "u2",
         name    |-> IF a = "a1" THEN "shop" ELSE "blog",
         status  |-> "pending"]]

InitScans ==
    [s \in {"s1", "s2", "s3"} |->
        [application_id        |-> IF s = "s3" THEN "a2" ELSE "a1",
         status                |-> "pending",
         overall_score         |-> Null,
         risk_level            |-> Null,
         vulnerabilities_found |-> Some(0),
         scan_duration         |-> Null,
         started_at            |-> Null,
         completed_at          |-> Null]]

\* A patch of an UPDATE: every column is Null (not in the patch, JSON.stringify
\* drops undefined) or Some(value).
NoPatch ==
    [status |-> Null, overall_score |-> Null, risk_level |-> Null,
     vulnerabilities_found |-> Null, scan_duration |-> Null,
     started_at |-> Null, completed_at |-> Null]

\* CHECK constraints of security_scans on the columns a patch sets.
ScanPatchOk(patch) ==
    /\ patch.status = Null \/ patch.status[1] \in ScanStatuses
    /\ patch.overall_score = Null
         \/ (patch.overall_score[1] >= 0 /\ patch.overall_score[1] <= 100)
    /\ patch.risk_level = Null \/ patch.risk_level[1] \in RiskLevels

\* The row after an accepted patch.
PatchedScan(row, patch) ==
    [application_id        |-> row.application_id,
     status                |-> IF patch.status = Null THEN row.status ELSE patch.status[1],
     overall_score         |-> IF patch.overall_score = Null THEN row.overall_score ELSE patch.overall_score,
     risk_level            |-> IF patch.risk_level = Null THEN row.risk_level ELSE patch.risk_level,
     vulnerabilities_found |-> IF patch.vulnerabilities_found = Null THEN row.vulnerabilities_found ELSE patch.vulnerabilities_found,
     scan_duration         |-> IF patch.scan_duration = Null THEN row.scan_duration ELSE patch.scan_duration,
     started_at            |-> IF patch.started_at = Null THEN row.started_at ELSE patch.started_at,
     completed_at          |-> IF patch.completed_at = Null THEN row.completed_at ELSE patch.completed_at]

\* UPDATE security_scans SET patch WHERE id = id: the statement is rejected as
\* a whole when a CHECK fails, and touches no row when id names none.
UpdateScanAccepted(scans, id, patch) == id \in DOMAIN scans /\ ScanPatchOk(patch)

\* UpdateScan without the filter .eq('id', scanId): the patch goes to every row.
UpdateScanEveryRow(scans, id, patch) ==
    IF UpdateScanAccepted(scans, id, patch)
    THEN [s \in DOMAIN scans |-> PatchedScan(scans[s], patch)]
    ELSE scans

UpdateScan(scans, id, patch) ==
    IF UpdateScanAccepted(scans, id, patch)
    THEN [scans EXCEPT ![id] = PatchedScan(scans[id], patch)]
    ELSE scans

\* UPDATE applications SET status = st WHERE id = id.
UpdateApplicationAccepted(apps, id, st) == id \in DOMAIN apps /\ st \in ApplicationStatuses

UpdateApplication(apps, id, st) ==
    IF UpdateApplicationAccepted(apps, id, st)
    THEN [apps EXCEPT ![id].status = st]
    ELSE apps

\* VulnerabilityRowOk without the foreign key on scan_id.
VulnerabilityRowOkNoForeignKey(scans, row) ==
    /\ row.severity \in Severities
    /\ row.title # Null
    /\ row.status \in VulnerabilityStatuses

\* CHECK, NOT NULL and foreign-key constraints of one vulnerabilities row.
VulnerabilityRowOk(scans, row) ==
    /\ row.scan_id \in DOMAIN scans
    /\ row.severity \in Severities
    /\ row.title # Null
    /\ row.status \in VulnerabilityStatuses

\* INSERT INTO vulnerabilities of several rows is one statement: all rows or none.
InsertAccepted(scans, rows) ==
    \A k \in 1..Len(rows) : VulnerabilityRowOk(scans, rows[k])

InsertVulnerabilities(vulns, scans, rows) ==
    IF InsertAccepted(scans, rows) THEN vulns \o rows ELSE vulns

\* A table without the row of one id.
WithoutRow(table, id) == [x \in DOMAIN table \ {id} |-> table[x]]

\* application_id REFERENCES applications(id) ON DELETE CASCADE: the scans
\* that are left when apps are the applications left.
CascadeScans(scans, apps) ==
    [s \in {x \in DOMAIN scans : scans[x].application_id \in DOMAIN apps} |-> scans[s]]

\* scan_id REFERENCES security_scans(id) ON DELETE CASCADE: the vulnerability
\* rows that are left when scans are the scans left.
CascadeVulnerabilities(vulns, scans) ==
    LET Kept(row) == row.scan_id \in DOMAIN scans
    IN SelectSeq(vulns, Kept)

\* Number of vulnerabilities rows of a scan.
RECURSIVE CountRows(_, _)
CountRows(vulns, s) ==
    IF vulns = <<>> THEN 0
    ELSE (IF vulns[1].scan_id = s THEN 1 ELSE 0) + CountRows(Tail(vulns), s)

\* ------------------------------------------------ completion text and JSON

\* The fence marker: three backticks.
Fence == "fence"

\* Tokens of a completion text; the V_ tokens are complete JSON documents.
ValueTokens ==
    {"V_empty", "V_two", "V_badscore", "V_badsev", "V_novulns", "V_null", "V_strvulns"}

Tokens == {Fence, "json", "js", "ws", "text"} \cup ValueTokens

Finding(sev, title) ==
    [severity |-> sev, title |-> Some(title), affected_component |-> Some("api")]

ArrayOf(items) == [kind |-> "array", items |-> items, length |-> Len(items)]

\* What JSON.parse returns for each document.  V_empty is the document of the
\* specification's example; the others are answers a model can give: two
\* findings, a score outside 0..100, a severity outside the schema, an object
\* without a vulnerabilities member, the literal null, and a vulnerabilities
\* member that is a two-character string.
JsonValue ==
    [t \in ValueTokens |->
        CASE t = "V_empty" ->
               [type |-> "object", overall_score |-> Some(10), risk_level |-> Some("high"),
                vulnerabilities |-> ArrayOf(<<>>)]
          [] t = "V_two" ->
               [type |-> "object", overall_score |-> Some(80), risk_level |-> Some("low"),
                vulnerabilities |-> ArrayOf(<<Finding("high", "t1"), Finding("low", "t2")>>)]
          [] t = "V_badscore" ->
               [type |-> "object", overall_score |-> Some(101), risk_level |-> Some("secure"),
                vulnerabilities |-> ArrayOf(<<Finding("info", "t1")>>)]
          [] t = "V_badsev" ->
               [type |-> "object", overall_score |-> Some(70), risk_level |-> Some("medium"),
                vulnerabilities |-> ArrayOf(<<Finding("moderate", "t1")>>)]
          [] t = "V_novulns" ->
               [type |-> "object", overall_score |-> Some(90), risk_level |-> Some("secure"),
                vulnerabilities |-> [kind |-> "undefined", items |-> <<>>, length |-> 0]]
          [] t = "V_null" ->
               [type |-> "null", overall_score |-> Null, risk_level |-> Null,
                vulnerabilities |-> [kind |-> "undefined", items |-> <<>>, length |-> 0]]
          [] t = "V_strvulns" ->
               [type |-> "object", overall_score |-> Some(60), risk_level |-> Some("medium"),
                vulnerabilities |-> [kind |-> "string", items |-> <<>>, length |-> 2]]]

\* String.prototype.trim on a token sequence.
RECURSIVE TrimLeft(_)
TrimLeft(s) == IF s # <<>> /\ s[1] = "ws" THEN TrimLeft(Tail(s)) ELSE s

RECURSIVE TrimRight(_)
TrimRight(s) ==
    IF s # <<>> /\ s[Len(s)] = "ws" THEN TrimRight(SubSeq(s, 1, Len(s) - 1)) ELSE s

Trim(s) == TrimRight(TrimLeft(s))

\* JSON.parse: a text parses when it is exactly one JSON document.
JsonParses(s) == Len(s) = 1 /\ s[1] \in ValueTokens

JsonParse(s) == JsonValue[s[1]]

\* Indexes of the fences at or after position from.
FencesFrom(c, from) == {k \in from..Len(c) : c[k] = Fence}

Min(S) == CHOOSE x \in S : \A y \in S : x <= y

\* The capture group of the pattern  opening, whitespace run, lazy group,
\* whitespace run, fence  when the opening ends at index open: the greedy
\* whitespace run is skipped and the lazy group stops before the whitespace
\* that precedes the first later fence.  No later fence: no match.
CaptureAfter(c, open) ==
    LET afterWs == Min({k \in (open + 1)..(Len(c) + 1) :
                          k = Len(c) + 1 \/ c[k] # "ws"})
        closes  == FencesFrom(c, afterWs)
    IN IF closes = {} THEN [matched |-> FALSE, group |-> <<>>]
       ELSE [matched |-> TRUE, group |-> TrimRight(SubSeq(c, afterWs, Min(closes) - 1))]

NoMatch == [matched |-> FALSE, group |-> <<>>]

\* First content.match, the pattern opened by a fence directly followed by
\* json: the leftmost such opening from which the rest of the pattern matches.
MatchJsonFence(c) ==
    LET starts == {k \in 1..(Len(c) - 1) :
                     c[k] = Fence /\ c[k + 1] = "json" /\ CaptureAfter(c, k + 1).matched}
    IN IF starts = {} THEN NoMatch ELSE CaptureAfter(c, Min(starts) + 1)

\* Second content.match, the pattern opened by a bare fence: the leftmost
\* fence from which the rest of the pattern matches.
MatchAnyFence(c) ==
    LET starts == {k \in 1..Len(c) : c[k] = Fence /\ CaptureAfter(c, k).matched}
    IN IF starts = {} THEN NoMatch ELSE CaptureAfter(c, Min(starts))

\* jsonMatch ? jsonMatch[1] : content, then .trim().
JsonStr(c) ==
    LET jsonMatch == IF MatchJsonFence(c).matched THEN MatchJsonFence(c) ELSE MatchAnyFence(c)
    IN Trim(IF jsonMatch.matched THEN jsonMatch.group ELSE c)

\* Fallback with an empty list of findings.
FallbackNoFinding(app) ==
    [type |-> "object", overall_score |-> Some(50), risk_level |-> Some("medium"),
     vulnerabilities |-> [kind |-> "array", items |-> <<>>, length |-> 0]]

\* The fixed result of the catch (parseError) branch.
Fallback(app) ==
    [type |-> "object", overall_score |-> Some(50), risk_level |-> Some("medium"),
     vulnerabilities |->
        ArrayOf(<<[severity |-> "medium", title |-> Some("Analise Incompleta"),
                   affected_component |-> Some(app.name)]>>)]

\* A message content: a string, or null (content.match then throws inside the try).
TextContent(c) == [isString |-> TRUE, text |-> c]

NullContent == [isString |-> FALSE, text |-> <<>>]

\* try { ... JSON.parse(jsonStr.trim()) } catch { fallback }.
ParseContent(content, app) ==
    IF content.isString /\ JsonParses(JsonStr(content.text))
    THEN JsonParse(JsonStr(content.text))
    ELSE Fallback(app)

\* ------------------------------------------------------------ the request

\* Authorization header values: absent, a token of no user, the token of u1.
\* The owner of the other application, u2, sends no request.
AuthHeaders == {"none", "Bearer stale", "Bearer u1"}

\* GetUser without the verification of the token: every bearer token is taken
\* for a session of u1.
GetUserUnverified(authHeader) == IF authHeader = "none" THEN Null ELSE Some("u1")

\* supabase.auth.getUser(token): the user of the token, Null with an error.
GetUser(authHeader) ==
    CASE authHeader = "Bearer u1" -> Some("u1")
      [] authHeader = "Bearer u2" -> Some("u2")
      [] OTHER -> Null

\* Identifier texts of a body: the rows' ids, a well-formed id of no row (s0,
\* a0), and a text that is no uuid.
ScanIdTexts == {"s1", "s2", "s3", "s0", "not-a-uuid"}

ApplicationIdTexts == {"a1", "a2", "a0", "not-a-uuid"}

\* Request bodies: JSON with the two members, or text that is not JSON.
Bodies ==
    [json : {TRUE}, scanId : ScanIdTexts, applicationId : ApplicationIdTexts]
      \cup {[json |-> FALSE, scanId |-> "not-a-uuid", applicationId |-> "not-a-uuid"]}

\* z.string().uuid()
IsUuid(text) == text # "not-a-uuid"

\* requestSchema.safeParse(body).error.errors: the members that violate the schema.
SchemaErrors(body) ==
    {f \in {"scanId", "applicationId"} :
        \/ f = "scanId" /\ ~IsUuid(body.scanId)
        \/ f = "applicationId" /\ ~IsUuid(body.applicationId)}

\* ---------------------------------------------------------- the responses

GenericError == "Security scan failed. Please try again or contact support."

Response(status, error, errorId, details, results) ==
    [status |-> status, error |-> error, errorId |-> errorId, details |-> details,
     success |-> (status = 200), results |-> results]

NoResponse == Response(0, "", Null, {}, Null)

\* CatchResponse that returns error.message to the caller and no errorId.
CatchResponseLeaky(message, uuid) == [status |-> 500, error |-> message, errorId |-> Null,
                                      details |-> {}, success |-> FALSE, results |-> Null]

\* The body of the catch block: the generic message and a new errorId; the
\* exception goes to console.error only.
CatchResponse(message, uuid) == Response(500, GenericError, Some(uuid), {}, Null)

\* AiFailureResponse that passes the upstream status on.
AiFailureResponseUpstreamStatus(errorText, uuid) ==
    [status |-> 502, error |-> GenericError, errorId |-> Some(uuid),
     details |-> {}, success |-> FALSE, results |-> Null]

\* The body returned when the completion API answers with a non-success status.
AiFailureResponse(errorText, uuid) == Response(500, GenericError, Some(uuid), {}, Null)

\* ------------------------------------------------------ the completion API

\* Contents a completion can carry: the fenced example of the specification, a
\* bare document, prose, a block with another language tag, an untagged block,
\* an unclosed fence, and the documents the store or the handler trips over.
HandlerContents ==
    {TextContent(<<Fence, "json", "ws", "V_empty", "ws", Fence>>),
     TextContent(<<"V_two">>),
     TextContent(<<"text">>),
     TextContent(<<Fence, "js", "ws", "V_two", "ws", Fence>>),
     TextContent(<<Fence, "ws", "V_badsev", "ws", Fence>>),
     TextContent(<<Fence, "json", "ws", "V_two">>),
     TextContent(<<"V_badscore">>),
     TextContent(<<"V_novulns">>),
     TextContent(<<"V_null">>),
     TextContent(<<"V_strvulns">>),
     NullContent}

\* Outcomes of fetch(): it throws, it answers with a non-success status and an
\* error text, or it answers 200 with a JSON body that has a first choice or not.
AiResponses ==
    {[thrown |-> TRUE, ok |-> FALSE, hasChoice |-> FALSE, content |-> NullContent],
     [thrown |-> FALSE, ok |-> FALSE, hasChoice |-> FALSE, content |-> TextContent(<<"text">>)],
     [thrown |-> FALSE, ok |-> TRUE, hasChoice |-> FALSE, content |-> NullContent]}
      \cup [thrown : {FALSE}, ok : {TRUE}, hasChoice : {TRUE}, content : HandlerContents]

NoAiResponse == [thrown |-> FALSE, ok |-> FALSE, hasChoice |-> FALSE, content |-> NullContent]

\* !aiResponse.ok
CompletionFailed(aiResponse) == ~aiResponse.ok

\* Values of Math.floor(Math.random() * 60) the model draws.
RandomFloors == {0, 59}

\* Math.floor(Math.random() * 60) + 30
ScanDuration(floor) == floor + 30

\* ---------------------------------------------------------------- state

VARIABLES
    applications,     \* table applications: id -> row
    security_scans,   \* table security_scans: id -> row
    vulnerabilities,  \* table vulnerabilities: sequence of rows
    inv,              \* per invocation: position, locals, response, history
    clock,            \* number of timestamps taken (new Date())
    uuids             \* number of identifiers generated (crypto.randomUUID())

vars == <<applications, security_scans, vulnerabilities, inv, clock, uuids>>

store == <<applications, security_scans, vulnerabilities>>

\* Locals of an invocation before it has received its request.
\* Applications.handleSubmit before the form is submitted: its position, the
\* form, the session, the rows it was given back, what it threw, the inserts
\* it sent and the body it invoked the function with.
IdleClient ==
    [pc |-> "idle", form |-> [name |-> <<>>], session |-> Null,
     app |-> Null, scan |-> Null, thrown |-> "", writes |-> <<>>, invoked |-> Null]

IdleInvocation ==
    [pc |-> "idle", client |-> IdleClient, authHeader |-> "none", user |-> Null,
     body |-> [json |-> FALSE, scanId |-> "not-a-uuid", applicationId |-> "not-a-uuid"],
     scanId |-> "", applicationId |-> "", app |-> Null,
     aiResponse |-> NoAiResponse, jsonStr |-> Null, scanResults |-> Null,
     scanDuration |-> Null,
     response |-> NoResponse,
     writes |-> <<>>, aiCalls |-> 0, thrown |-> "", checks |-> <<>>,
     pre |-> [applications |-> InitApplications, security_scans |-> InitScans,
              vulnerabilities |-> <<>>]]

Init ==
    /\ applications = InitApplications
    /\ security_scans = InitScans
    /\ vulnerabilities = <<>>
    /\ inv = [i \in Invocations |-> IdleInvocation]
    /\ clock = 0
    /\ uuids = 0

\* One entry of an invocation's history of statements sent to the store.
Write(table, op, id, accepted, rows) ==
    [table |-> table, op |-> op, id |-> id, accepted |-> accepted, rows |-> rows]

\* The conditions of the handler that the invocation has evaluated, in order.
Checked(rec, names) == [rec EXCEPT !.checks = @ \o names]

\* Returned without the return: the response is built and the handler stays
\* where it is.
ReturnedWithoutEnding(rec, response) == [rec EXCEPT !.response = response]

\* return new Response(...): the invocation ends.
Returned(rec, response) == [rec EXCEPT !.pc = "done", !.response = response]

\* An exception reaches the catch block of the handler.
Caught(rec, message, uuid) ==
    [rec EXCEPT !.pc = "done", !.thrown = message,
                !.response = CatchResponse(message, uuid)]

\* OwnsApplication without the comparison of the owner.
OwnsApplicationUnchecked(app, user) == TRUE

\* app.user_id !== user.id is the forbidden branch.
OwnsApplication(app, user) == app.user_id = user

\* ScanPaired with a guard that turns away a scan that is no longer pending.
ScanPairedWhilePending(scans, scanId, applicationId) ==
    /\ scanId \in DOMAIN scans
    /\ scans[scanId].application_id = applicationId
    /\ scans[scanId].status = "pending"

\* scanError || !scan || scan.application_id !== applicationId
ScanPaired(scans, scanId, applicationId) ==
    scanId \in DOMAIN scans /\ scans[scanId].application_id = applicationId

\* .update({ status: 'running', started_at: new Date().toISOString() })
RunningPatch(now) ==
    [NoPatch EXCEPT !.status = Some("running"), !.started_at = Some(now)]

\* .update({ status: 'completed', overall_score, risk_level,
\*           vulnerabilities_found, scan_duration, completed_at })
CompletedPatch(scanResults, scanDuration, now) ==
    [NoPatch EXCEPT !.status = Some("completed"),
                    !.overall_score = scanResults.overall_score,
                    !.risk_level = scanResults.risk_level,
                    !.vulnerabilities_found = Some(scanResults.vulnerabilities.length),
                    !.scan_duration = Some(scanDuration),
                    !.completed_at = Some(now)]

\* scanResults.vulnerabilities.map(vuln => ({ scan_id: scanId, ..., status: 'open' }))
VulnerabilitiesToInsert(scanId, items) ==
    [k \in 1..Len(items) |->
        [scan_id |-> scanId, severity |-> items[k].severity, title |-> items[k].title,
         affected_component |-> items[k].affected_component, status |-> "open"]]

\* --------------------------------------------------------------- actions

\* A request arrives with one of the given Authorization headers.
Arrive(i, headers) ==
    /\ inv[i].pc = "idle"
    /\ \E h \in headers :
         inv' = [inv EXCEPT ![i].pc = "authenticate", ![i].authHeader = h,
                            ![i].pre = [applications |-> applications,
                                        security_scans |-> security_scans,
                                        vulnerabilities |-> vulnerabilities]]
    /\ UNCHANGED <<store, clock, uuids>>

\* Invocations run one after the other in Spec.
Receive(i) ==
    /\ \A j \in Invocations : j < i => inv[j].pc = "done"
    /\ Arrive(i, AuthHeaders)

\* Verify authentication: the header, then supabase.auth.getUser(token).
Authenticate(i) ==
    /\ inv[i].pc = "authenticate"
    /\ inv' = [inv EXCEPT ![i] =
         IF inv[i].authHeader = "none"
         THEN Returned(Checked(@, <<"credential present">>),
                       Response(401, "Authentication required", Null, {}, Null))
         ELSE IF GetUser(inv[i].authHeader) = Null
         THEN Returned(Checked(@, <<"credential present", "credential resolves">>),
                       Response(401, "Invalid authentication token", Null, {}, Null))
         ELSE [Checked(@, <<"credential present", "credential resolves">>)
                  EXCEPT !.pc = "validate", !.user = GetUser(inv[i].authHeader)]]
    /\ UNCHANGED <<store, clock, uuids>>

\* await req.json(), then requestSchema.safeParse(body), for a request that
\* carries one of the given bodies.
ValidateBody(i, bodies) ==
    /\ inv[i].pc = "validate"
    /\ \E b \in bodies :
         IF ~b.json
         THEN /\ inv' = [inv EXCEPT ![i] =
                    Caught([@ EXCEPT !.body = b], "SyntaxError: Unexpected token", uuids + 1)]
              /\ uuids' = uuids + 1
         ELSE /\ inv' = [inv EXCEPT ![i] =
                    IF SchemaErrors(b) # {}
                    THEN Returned(Checked([@ EXCEPT !.body = b], <<"body shape">>),
                           Response(400, "Invalid request parameters", Null,
                                    SchemaErrors(b), Null))
                    ELSE [Checked(@, <<"body shape">>)
                                   EXCEPT !.body = b, !.scanId = b.scanId,
                                   !.applicationId = b.applicationId,
                                   !.pc = "mark_running"]]
              /\ UNCHANGED uuids
    /\ UNCHANGED <<store, clock>>

Validate(i) == ValidateBody(i, Bodies)

\* Update scan status to running.
MarkRunning(i) ==
    /\ inv[i].pc = "mark_running"
    /\ security_scans' = UpdateScan(security_scans, inv[i].scanId, RunningPatch(clock + 1))
    /\ clock' = clock + 1
    /\ inv' = [inv EXCEPT ![i].pc = "fetch_application",
                          ![i].writes = Append(@,
                             Write("security_scans", "running", inv[i].scanId,
                                   UpdateScanAccepted(security_scans, inv[i].scanId,
                                                      RunningPatch(clock + 1)), 0))]
    /\ UNCHANGED <<applications, vulnerabilities, uuids>>

\* Get application details and verify ownership.
FetchApplication(i) ==
    /\ inv[i].pc = "fetch_application"
    /\ inv' = [inv EXCEPT ![i] =
         IF inv[i].applicationId \notin DOMAIN applications
         THEN Returned(Checked(@, <<"application exists">>),
                       Response(404, "Application not found", Null, {}, Null))
         ELSE IF ~OwnsApplication(applications[inv[i].applicationId], inv[i].user[1])
         THEN Returned(Checked(@, <<"application exists", "caller owns application">>),
                       Response(403, "You do not have permission to scan this application",
                                Null, {}, Null))
         ELSE [Checked(@, <<"application exists", "caller owns application">>)
                  EXCEPT !.pc = "verify_scan",
                        !.app = Some(applications[inv[i].applicationId])]]
    /\ UNCHANGED <<store, clock, uuids>>

\* Verify scan belongs to application.
VerifyScan(i) ==
    /\ inv[i].pc = "verify_scan"
    /\ inv' = [inv EXCEPT ![i] =
         IF ~ScanPaired(security_scans, inv[i].scanId, inv[i].applicationId)
         THEN Returned(Checked(@, <<"scan paired">>),
                       Response(400, "Invalid scan request", Null, {}, Null))
         ELSE [Checked(@, <<"scan paired">>) EXCEPT !.pc = "mark_scanning"]]
    /\ UNCHANGED <<store, clock, uuids>>

\* Update application status to scanning.
MarkScanning(i) ==
    /\ inv[i].pc = "mark_scanning"
    /\ applications' = UpdateApplication(applications, inv[i].applicationId, "scanning")
    /\ inv' = [inv EXCEPT ![i].pc = "call_completion",
                          ![i].writes = Append(@,
                             Write("applications", "scanning", inv[i].applicationId,
                                   UpdateApplicationAccepted(applications,
                                       inv[i].applicationId, "scanning"), 0))]
    /\ UNCHANGED <<security_scans, vulnerabilities, clock, uuids>>

\* The completion call, the parse of its answer and the duration, when the
\* gateway gives one of the given answers and Math.random() one of the floors.
Complete(i, responses, floors) ==
    /\ inv[i].pc = "call_completion"
    /\ \E r \in responses, floor \in floors :
         LET called == [inv[i] EXCEPT !.aiCalls = @ + 1, !.aiResponse = r]
         IN IF r.thrown
            THEN /\ inv' = [inv EXCEPT ![i] = Caught(called, "TypeError: fetch failed", uuids + 1)]
                 /\ uuids' = uuids + 1
            ELSE IF CompletionFailed(r)
            THEN /\ inv' = [inv EXCEPT ![i] =
                       Returned(called, AiFailureResponse("upstream error text", uuids + 1))]
                 /\ uuids' = uuids + 1
            ELSE IF ~r.hasChoice
            THEN /\ inv' = [inv EXCEPT ![i] =
                       Caught(called, "TypeError: reading '0' of undefined", uuids + 1)]
                 /\ uuids' = uuids + 1
            ELSE /\ inv' = [inv EXCEPT ![i] =
                       [called EXCEPT !.pc = "update_scan",
                                      !.jsonStr = IF r.content.isString
                                                  THEN Some(JsonStr(r.content.text))
                                                  ELSE Null,
                                      !.scanResults = Some(ParseContent(r.content, inv[i].app[1])),
                                      !.scanDuration = Some(ScanDuration(floor))]]
                 /\ UNCHANGED uuids
    /\ UNCHANGED <<store, clock>>

CallCompletion(i) == Complete(i, AiResponses, RandomFloors)

\* Update scan with results.  Building the patch reads members of scanResults
\* and throws on null and on a missing vulnerabilities member.
UpdateScanResults(i) ==
    /\ inv[i].pc = "update_scan"
    /\ LET res   == inv[i].scanResults[1]
           patch == CompletedPatch(res, inv[i].scanDuration[1], clock + 1)
       IN IF res.type = "null" \/ res.vulnerabilities.kind = "undefined"
          THEN /\ inv' = [inv EXCEPT ![i] =
                     Caught(@, "TypeError: reading 'length' of undefined", uuids + 1)]
               /\ uuids' = uuids + 1
               /\ UNCHANGED <<security_scans, clock>>
          ELSE /\ security_scans' = UpdateScan(security_scans, inv[i].scanId, patch)
               /\ clock' = clock + 1
               /\ inv' = [inv EXCEPT ![i].pc = "insert_vulnerabilities",
                                     ![i].writes = Append(@,
                                        Write("security_scans", "completed", inv[i].scanId,
                                              UpdateScanAccepted(security_scans, inv[i].scanId, patch),
                                              0))]
               /\ UNCHANGED uuids
    /\ UNCHANGED <<applications, vulnerabilities>>

\* InsertFindings without the insert: the handler goes on to the application.
InsertFindingsSkipped(i) ==
    /\ inv[i].pc = "insert_vulnerabilities"
    /\ inv' = [inv EXCEPT ![i].pc = "mark_completed"]
    /\ UNCHANGED <<store, clock, uuids>>

\* Insert vulnerabilities, when the list is not empty.
InsertFindings(i) ==
    /\ inv[i].pc = "insert_vulnerabilities"
    /\ LET list == inv[i].scanResults[1].vulnerabilities
           rows == VulnerabilitiesToInsert(inv[i].scanId, list.items)
       IN IF list.length = 0
          THEN /\ inv' = [inv EXCEPT ![i].pc = "mark_completed"]
               /\ UNCHANGED <<vulnerabilities, uuids>>
          ELSE IF list.kind # "array"
          THEN /\ inv' = [inv EXCEPT ![i] =
                     Caught(@, "TypeError: map is not a function", uuids + 1)]
               /\ uuids' = uuids + 1
               /\ UNCHANGED vulnerabilities
          ELSE /\ vulnerabilities' = InsertVulnerabilities(vulnerabilities, security_scans, rows)
               /\ inv' = [inv EXCEPT ![i].pc = "mark_completed",
                                     ![i].writes = Append(@,
                                        Write("vulnerabilities", "insert", inv[i].scanId,
                                              InsertAccepted(security_scans, rows),
                                              IF InsertAccepted(security_scans, rows)
                                              THEN Len(rows) ELSE 0))]
               /\ UNCHANGED uuids
    /\ UNCHANGED <<applications, security_scans, clock>>

\* Update application status to completed and return the success response.
MarkCompleted(i) ==
    /\ inv[i].pc = "mark_completed"
    /\ applications' = UpdateApplication(applications, inv[i].applicationId, "completed")
    /\ inv' = [inv EXCEPT ![i] =
         Returned([@ EXCEPT !.writes = Append(@,
                       Write("applications", "completed", inv[i].applicationId,
                             UpdateApplicationAccepted(applications,
                                 inv[i].applicationId, "completed"), 0))],
                  Response(200, "", Null, {}, inv[i].scanResults))]
    /\ UNCHANGED <<security_scans, vulnerabilities, clock, uuids>>

Next ==
    \E i \in Invocations :
        \/ Receive(i)
        \/ Authenticate(i)
        \/ Validate(i)
        \/ MarkRunning(i)
        \/ FetchApplication(i)
        \/ VerifyScan(i)
        \/ MarkScanning(i)
        \/ CallCompletion(i)
        \/ UpdateScanResults(i)
        \/ InsertFindings(i)
        \/ MarkCompleted(i)

Spec == Init /\ [][Next]_vars

\* One step of invocation i after its arrival.
Step(i) ==
    \/ Authenticate(i)
    \/ Validate(i)
    \/ MarkRunning(i)
    \/ FetchApplication(i)
    \/ VerifyScan(i)
    \/ MarkScanning(i)
    \/ CallCompletion(i)
    \/ UpdateScanResults(i)
    \/ InsertFindings(i)
    \/ MarkCompleted(i)

\* Every awaited call returns (the token lookup, the reads and writes of the
\* store, the completion call), so an invocation that can take a step
\* eventually takes one.  Nothing obliges a request to arrive.
SpecFair == Spec /\ \A i \in Invocations : WF_vars(Step(i))

\* ------------------------------------------- invocations that overlap

\* Deno's serve() starts the handler for each request as it arrives and every
\* await gives way to the other invocations in flight: the steps of the
\* invocations interleave.  The overlapping requests are those of the owner u1
\* for the scans s1 and s2 of the application a1; the gateway answers with two
\* findings, with text that is no JSON, or with a failure status.
ConcurrentAuthHeaders == {"Bearer u1"}

ConcurrentBodies ==
    {b \in Bodies : b.json /\ b.applicationId = "a1" /\ b.scanId \in {"s1", "s2"}}

ConcurrentAiResponses ==
    {r \in AiResponses :
        /\ ~r.thrown
        /\ r.ok => /\ r.hasChoice
                   /\ r.content \in {TextContent(<<"V_two">>), TextContent(<<"text">>)}}

ConcurrentFloors == {0}

\* A request arrives while earlier ones are in flight.  Arriving touches
\* nothing in the store, so a request that arrives later in time behaves as one
\* that arrived with the others and took its first step later: the requests
\* that overlap all arrive before any of them gets past authentication.
ReceiveConcurrent(i) ==
    /\ \A j \in Invocations : j < i => inv[j].pc = "authenticate"
    /\ Arrive(i, ConcurrentAuthHeaders)

\* s1 and s2 are alike (both pending scans of a1), so the first request is
\* taken to name s1; the others name either scan.
ValidateConcurrent(i) ==
    ValidateBody(i, IF i = 1 THEN {b \in ConcurrentBodies : b.scanId = "s1"}
                    ELSE ConcurrentBodies)

CallCompletionConcurrent(i) == Complete(i, ConcurrentAiResponses, ConcurrentFloors)

NextConcurrent ==
    \E i \in Invocations :
        \/ ReceiveConcurrent(i)
        \/ Authenticate(i)
        \/ ValidateConcurrent(i)
        \/ MarkRunning(i)
        \/ FetchApplication(i)
        \/ VerifyScan(i)
        \/ MarkScanning(i)
        \/ CallCompletionConcurrent(i)
        \/ UpdateScanResults(i)
        \/ InsertFindings(i)
        \/ MarkCompleted(i)

SpecConcurrent == Init /\ [][NextConcurrent]_vars

\* --------------------------------------------------- deletes by the users

\* The users of the store: u1 sends the scan requests, u2 owns a2.
Users == {"u1", "u2"}

\* DELETE FROM applications WHERE id = a, sent by user u with their own
\* token: the policy lets it reach the row when auth.uid() = user_id; the
\* foreign keys take the application's scans and their vulnerabilities along.
DeleteApplication(u, a) ==
    /\ a \in DOMAIN applications
    /\ applications[a].user_id = u
    /\ applications' = WithoutRow(applications, a)
    /\ security_scans' = CascadeScans(security_scans, applications')
    /\ vulnerabilities' = CascadeVulnerabilities(vulnerabilities, security_scans')
    /\ UNCHANGED <<inv, clock, uuids>>

\* DELETE FROM security_scans WHERE id = s, sent by user u: the policy lets it
\* reach the row when the scan's application belongs to u.
DeleteScan(u, s) ==
    /\ s \in DOMAIN security_scans
    /\ \E a \in DOMAIN applications :
           a = security_scans[s].application_id /\ applications[a].user_id = u
    /\ security_scans' = WithoutRow(security_scans, s)
    /\ vulnerabilities' = CascadeVulnerabilities(vulnerabilities, security_scans')
    /\ UNCHANGED <<applications, inv, clock, uuids>>

\* The requests of the owner u1, one after the other, while the users delete
\* rows between any two steps of the handler.
ReceiveFromOwner(i) ==
    /\ \A j \in Invocations : j < i => inv[j].pc = "done"
    /\ Arrive(i, ConcurrentAuthHeaders)

NextDeletes ==
    \/ \E i \in Invocations :
        \/ ReceiveFromOwner(i)
        \/ Authenticate(i)
        \/ ValidateConcurrent(i)
        \/ MarkRunning(i)
        \/ FetchApplication(i)
        \/ VerifyScan(i)
        \/ MarkScanning(i)
        \/ CallCompletionConcurrent(i)
        \/ UpdateScanResults(i)
        \/ InsertFindings(i)
        \/ MarkCompleted(i)
    \/ \E u \in Users, a \in DOMAIN InitApplications : DeleteApplication(u, a)
    \/ \E u \in Users, s \in DOMAIN InitScans : DeleteScan(u, s)

SpecDeletes == Init /\ [][NextDeletes]_vars

\* ----------------------------------------- user sessions and the policies

\* The commands for which the migrations create a policy on vulnerabilities.
\* Row level security is enabled on the table, so a command without a policy
\* is refused for every user session; the handler's service-role client is
\* not subject to the policies.
VulnerabilityPolicies == {"SELECT", "UPDATE", "DELETE"}

\* A user session sends INSERT INTO vulnerabilities for one of the scans.
UserInsertVulnerability(u, s) ==
    /\ vulnerabilities' =
           IF "INSERT" \in VulnerabilityPolicies
           THEN InsertVulnerabilities(vulnerabilities, security_scans,
                    << [scan_id |-> s, severity |-> "high", title |-> Some("by hand"),
                        affected_component |-> Null, status |-> "open"] >>)
           ELSE vulnerabilities
    /\ UNCHANGED <<applications, security_scans, inv, clock, uuids>>

\* The requests of Spec, with user sessions trying to insert in between.
NextUsers ==
    \/ Next
    \/ \E u \in Users, s \in DOMAIN InitScans : UserInsertVulnerability(u, s)

SpecUsers == Init /\ [][NextUsers]_vars

\* ------------------------------------------------- the earlier handler

\* The earlier version of the handler reads no credential and checks neither
\* the body nor the owner nor the pairing; its catch block answers with the
\* message of the exception.  Its store statements, its parse and its success
\* response are those of the later version.
LegacyAuthHeaders == AuthHeaders

\* Bodies sent to the earlier handler: u1's scan, u2's scan, an application
\* that does not exist, and a body that is not JSON.
LegacyBodies ==
    {b \in Bodies :
        \/ ~b.json
        \/ <<b.scanId, b.applicationId>> \in {<<"s1", "a1">>, <<"s3", "a2">>, <<"s1", "a0">>}}

\* Answers of the gateway to the earlier handler: a failure status, two
\* findings, text that is no JSON, the literal null.
LegacyAiResponses ==
    {r \in AiResponses :
        /\ ~r.thrown
        /\ r.ok => /\ r.hasChoice
                   /\ r.content \in {TextContent(<<"V_two">>), TextContent(<<"text">>),
                                     TextContent(<<"V_null">>)}}

\* catch (error): status 500 with error.message, no correlation identifier.
LegacyCatchResponse(message) == Response(500, message, Null, {}, Null)

LegacyCaught(rec, message) ==
    [rec EXCEPT !.pc = "done", !.thrown = message,
                !.response = LegacyCatchResponse(message)]

\* A request reaches the earlier handler; requests come one after the other.
LegacyReceive(i) ==
    /\ inv[i].pc = "idle"
    /\ \A j \in Invocations : j < i => inv[j].pc = "done"
    /\ \E h \in LegacyAuthHeaders :
         inv' = [inv EXCEPT ![i].pc = "read_body", ![i].authHeader = h,
                            ![i].pre = [applications |-> applications,
                                        security_scans |-> security_scans,
                                        vulnerabilities |-> vulnerabilities]]
    /\ UNCHANGED <<store, clock, uuids>>

\* const { scanId, applicationId } = await req.json() as SecurityScanRequest.
LegacyReadBody(i) ==
    /\ inv[i].pc = "read_body"
    /\ \E b \in LegacyBodies :
         inv' = [inv EXCEPT ![i] =
             IF ~b.json
             THEN LegacyCaught([@ EXCEPT !.body = b], "Unexpected token")
             ELSE [@ EXCEPT !.body = b, !.scanId = b.scanId,
                            !.applicationId = b.applicationId, !.pc = "mark_running"]]
    /\ UNCHANGED <<store, clock, uuids>>

\* Update scan status to running: the statement of the later version.
LegacyMarkRunning(i) == MarkRunning(i)

\* Get application details; if (!app) throw new Error('Application not found').
LegacyFetchApplication(i) ==
    /\ inv[i].pc = "fetch_application"
    /\ inv' = [inv EXCEPT ![i] =
         IF inv[i].applicationId \notin DOMAIN applications
         THEN LegacyCaught(@, "Application not found")
         ELSE [@ EXCEPT !.pc = "mark_scanning",
                        !.app = Some(applications[inv[i].applicationId])]]
    /\ UNCHANGED <<store, clock, uuids>>

\* Update application status: the statement of the later version.
LegacyMarkScanning(i) == MarkScanning(i)

\* The completion call; a failure status throws 'AI API error: <status>'.
LegacyCallCompletion(i) ==
    /\ inv[i].pc = "call_completion"
    /\ \E r \in LegacyAiResponses, floor \in ConcurrentFloors :
         LET called == [inv[i] EXCEPT !.aiCalls = @ + 1, !.aiResponse = r]
         IN inv' = [inv EXCEPT ![i] =
                IF CompletionFailed(r)
                THEN LegacyCaught(called, "AI API error: 500")
                ELSE [called EXCEPT !.pc = "update_scan",
                                    !.jsonStr = IF r.content.isString
                                                THEN Some(JsonStr(r.content.text))
                                                ELSE Null,
                                    !.scanResults = Some(ParseContent(r.content, inv[i].app[1])),
                                    !.scanDuration = Some(ScanDuration(floor))]]
    /\ UNCHANGED <<store, clock, uuids>>

\* Update scan with results.
LegacyUpdateScanResults(i) ==
    /\ inv[i].pc = "update_scan"
    /\ LET res   == inv[i].scanResults[1]
           patch == CompletedPatch(res, inv[i].scanDuration[1], clock + 1)
       IN IF res.type = "null" \/ res.vulnerabilities.kind = "undefined"
          THEN /\ inv' = [inv EXCEPT ![i] =
                     LegacyCaught(@, "Cannot read properties of null")]
               /\ UNCHANGED <<security_scans, clock>>
          ELSE /\ security_scans' = UpdateScan(security_scans, inv[i].scanId, patch)
               /\ clock' = clock + 1
               /\ inv' = [inv EXCEPT ![i].pc = "insert_vulnerabilities",
                                     ![i].writes = Append(@,
                                        Write("security_scans", "completed", inv[i].scanId,
                                              UpdateScanAccepted(security_scans, inv[i].scanId, patch),
                                              0))]
    /\ UNCHANGED <<applications, vulnerabilities, uuids>>

\* Insert vulnerabilities: the lists the earlier handler is given are arrays.
LegacyInsertFindings(i) == InsertFindings(i)

\* Update application status and return the success response.
LegacyMarkCompleted(i) == MarkCompleted(i)

NextLegacy ==
    \E i \in Invocations :
        \/ LegacyReceive(i)
        \/ LegacyReadBody(i)
        \/ LegacyMarkRunning(i)
        \/ LegacyFetchApplication(i)
        \/ LegacyMarkScanning(i)
        \/ LegacyCallCompletion(i)
        \/ LegacyUpdateScanResults(i)
        \/ LegacyInsertFindings(i)
        \/ LegacyMarkCompleted(i)

SpecLegacy == Init /\ [][NextLegacy]_vars

\* ------------------------------------------- Applications.handleSubmit

\* Submission i of the form is followed, when it gets that far, by
\* invocation i of the function.  The client works with the session user's
\* rights; row level security lets a user insert an application whose user_id
\* is the user, and a scan of an application of the user.

\* Names typed into the form, as token sequences: nothing, blanks only, a
\* word between blanks.
FormNames == {<<>>, <<"ws">>, <<"ws", "api", "ws">>}

Forms == [name : FormNames]

\* applicationSchema.safeParse(formData).success: name .trim().min(1).
FormValid(form) == Len(Trim(form.name)) >= 1

\* validated.name: the trimmed name; the tables hold a one-word name as that
\* word.
ValidatedName(form) == Trim(form.name)[1]

\* supabase.auth.getSession(): no session, or the session of a user.
Sessions == {Null, Some("u1"), Some("u2")}

\* gen_random_uuid() of the rows of submission i.
NewApplicationId(i) == "a" \o ToString(i + 2)

NewScanId(i) == "s" \o ToString(i + 3)

\* The row of .from("applications").insert({user_id, name, ..., status: "pending"}).
SubmittedApplication(client) ==
    [user_id |-> client.session[1], name |-> ValidatedName(client.form), status |-> "pending"]

\* The row of .from("security_scans").insert({application_id, scan_type, status});
\* the other columns take their defaults.
SubmittedScan(client) ==
    [application_id        |-> client.app[1],
     status                |-> "pending",
     overall_score         |-> Null,
     risk_level            |-> Null,
     vulnerabilities_found |-> Some(0),
     scan_duration         |-> Null,
     started_at            |-> Null,
     completed_at          |-> Null]

\* WITH CHECK (auth.uid() = user_id), and the CHECK on status.
ApplicationInsertAllowed(u, row) == row.user_id = u /\ row.status \in ApplicationStatuses

\* WITH CHECK (EXISTS application of auth.uid() with that id), the foreign key
\* and the CHECK on status.
ScanInsertAllowed(apps, u, row) ==
    /\ row.application_id \in DOMAIN apps
    /\ apps[row.application_id].user_id = u
    /\ row.status \in ScanStatuses

\* body: { scanId: scan.id, applicationId: app.id } with the scan of another
\* submission.
InvokeBodyOfFirstScan(client) ==
    [json |-> TRUE, scanId |-> "s1", applicationId |-> client.app[1]]

\* body: { scanId: scan.id, applicationId: app.id }
InvokeBody(client) ==
    [json |-> TRUE, scanId |-> client.scan[1], applicationId |-> client.app[1]]

\* throw inside the try: the catch shows the message and the function ends.
ClientThrew(client, message) == [client EXCEPT !.pc = "done", !.thrown = message]

\* The form is submitted: validation, then the session.
SubmitForm(i) ==
    /\ inv[i].client.pc = "idle"
    /\ \A j \in Invocations :
         j < i => inv[j].client.pc = "done" /\ inv[j].pc \in {"idle", "done"}
    /\ \E form \in Forms, session \in Sessions :
         inv' = [inv EXCEPT ![i].client =
             IF ~FormValid(form)
             THEN [@ EXCEPT !.form = form, !.pc = "done"]
             ELSE IF session = Null
             THEN ClientThrew([@ EXCEPT !.form = form], "Não autenticado")
             ELSE [@ EXCEPT !.form = form, !.session = session,
                            !.pc = "insert_application"]]
    /\ UNCHANGED <<store, clock, uuids>>

\* insert into applications, .select().single(); if (error) throw error.  The
\* statement fails when the database refuses the row or cannot be reached.
SubmitInsertApplication(i) ==
    /\ inv[i].client.pc = "insert_application"
    /\ \E reached \in BOOLEAN :
         LET client   == inv[i].client
             id       == NewApplicationId(i)
             row      == SubmittedApplication(client)
             accepted == reached /\ ApplicationInsertAllowed(client.session[1], row)
             sent     == [client EXCEPT !.writes =
                             Append(@, Write("applications", "insert", id, accepted, 1))]
         IN /\ applications' = IF accepted THEN (id :> row) @@ applications
                               ELSE applications
            /\ inv' = [inv EXCEPT ![i].client =
                   IF accepted
                   THEN [sent EXCEPT !.app = Some(id), !.pc = "insert_scan"]
                   ELSE ClientThrew(sent, "insert failed")]
    /\ UNCHANGED <<security_scans, vulnerabilities, clock, uuids>>

\* insert into security_scans, .select().single(); if (scanError) throw scanError.
SubmitInsertScan(i) ==
    /\ inv[i].client.pc = "insert_scan"
    /\ \E reached \in BOOLEAN :
         LET client   == inv[i].client
             id       == NewScanId(i)
             row      == SubmittedScan(client)
             accepted == reached /\ ScanInsertAllowed(applications, client.session[1], row)
             sent     == [client EXCEPT !.writes =
                             Append(@, Write("security_scans", "insert", id, accepted, 1))]
         IN /\ security_scans' = IF accepted THEN (id :> row) @@ security_scans
                                 ELSE security_scans
            /\ inv' = [inv EXCEPT ![i].client =
                   IF accepted
                   THEN [sent EXCEPT !.scan = Some(id), !.pc = "invoke"]
                   ELSE ClientThrew(sent, "insert failed")]
    /\ UNCHANGED <<applications, vulnerabilities, clock, uuids>>

\* supabase.functions.invoke("security-scanner", {body}): the request reaches
\* the handler with the session's token.
SubmitInvoke(i) ==
    /\ inv[i].client.pc = "invoke"
    /\ inv[i].pc = "idle"
    /\ inv' = [inv EXCEPT ![i].client.pc = "await",
                          ![i].client.invoked = Some(InvokeBody(inv[i].client)),
                          ![i].pc = "authenticate",
                          ![i].authHeader = "Bearer " \o inv[i].client.session[1],
                          ![i].pre = [applications |-> applications,
                                      security_scans |-> security_scans,
                                      vulnerabilities |-> vulnerabilities]]
    /\ UNCHANGED <<store, clock, uuids>>

\* The handler reads the body the client sent.
ValidateSubmitted(i) ==
    /\ inv[i].client.invoked # Null
    /\ ValidateBody(i, {inv[i].client.invoked[1]})

\* The invocation returned: a functionError is logged only, the dialog closes.
SubmitFinish(i) ==
    /\ inv[i].client.pc = "await"
    /\ inv[i].pc = "done"
    /\ inv' = [inv EXCEPT ![i].client.pc = "done"]
    /\ UNCHANGED <<store, clock, uuids>>

NextSubmit ==
    \E i \in Invocations :
        \/ SubmitForm(i)
        \/ SubmitInsertApplication(i)
        \/ SubmitInsertScan(i)
        \/ SubmitInvoke(i)
        \/ Authenticate(i)
        \/ ValidateSubmitted(i)
        \/ MarkRunning(i)
        \/ FetchApplication(i)
        \/ VerifyScan(i)
        \/ MarkScanning(i)
        \/ CallCompletionConcurrent(i)
        \/ UpdateScanResults(i)
        \/ InsertFindings(i)
        \/ MarkCompleted(i)
        \/ SubmitFinish(i)

SpecSubmit == Init /\ [][NextSubmit]_vars

\* ------------------------------------------------------------ properties

\* The invocation has returned and no later one has started: the store is as
\* this invocation left it.
JustReturned(i) ==
    /\ inv[i].pc = "done"
    /\ \A j \in Invocations : j > i => inv[j].pc = "idle"

\* The request carries a token that resolves to a user and a well-formed body.
ValidCredential(i) == inv[i].authHeader = "Bearer u1"

WellFormedBody(i) ==
    inv[i].body.json /\ inv[i].body.scanId # "not-a-uuid"
                     /\ inv[i].body.applicationId # "not-a-uuid"

\* Vulnerability rows the invocation inserted.
RECURSIVE RowsInserted(_)
RowsInserted(writes) ==
    IF writes = <<>> THEN 0
    ELSE (IF writes[1].table = "vulnerabilities" /\ writes[1].accepted
          THEN writes[1].rows ELSE 0) + RowsInserted(Tail(writes))

\* Statements of the invocation that named a table.
WritesTo(i, table) == {k \in 1..Len(inv[i].writes) : inv[i].writes[k].table = table}

\* C1: an invocation that returns the success response leaves its scan
\* 'completed', its application 'completed', and vulnerabilities_found equal
\* to the number of vulnerability rows the invocation inserted.
C1_SuccessLeavesCompletedAndCounted ==
    \A i \in Invocations :
        (JustReturned(i) /\ inv[i].response.status = 200) =>
            /\ security_scans[inv[i].scanId].status = "completed"
            /\ applications[inv[i].applicationId].status = "completed"
            /\ security_scans[inv[i].scanId].vulnerabilities_found
                 = Some(RowsInserted(inv[i].writes))

\* C1, the case the claim is about: a success response after the store
\* rejected the insert of the findings.
C1_SuccessAfterRejectedInsert ==
    \E i \in Invocations :
        /\ JustReturned(i) /\ inv[i].response.status = 200
        /\ \E k \in WritesTo(i, "vulnerabilities") : ~inv[i].writes[k].accepted

\* C2: a request without Authorization header, or with a token that resolves
\* to no user, is answered 401, sends no statement to the store, and leaves
\* the three tables as they were.
C2_UnauthenticatedIs401WithoutWrites ==
    \A i \in Invocations :
        (inv[i].pc \notin {"idle", "authenticate"}
           /\ inv[i].authHeader \in {"none", "Bearer stale"}) =>
            /\ inv[i].pc = "done"
            /\ inv[i].response.status = 401
            /\ inv[i].writes = <<>>
            /\ inv[i].aiCalls = 0
            /\ JustReturned(i) =>
                 /\ security_scans = inv[i].pre.security_scans
                 /\ applications = inv[i].pre.applications
                 /\ vulnerabilities = inv[i].pre.vulnerabilities

\* C2 witness: a stale token is rejected on a store that already holds the
\* findings of an earlier scan.
C2_Witness ==
    \E i \in Invocations :
        /\ JustReturned(i)
        /\ inv[i].authHeader = "Bearer stale"
        /\ inv[i].response.status = 401
        /\ vulnerabilities # <<>>

\* C3: when the scan named by scanId belongs to another application, or no
\* scan has that id, the answer is 400 and neither a scan's status nor an
\* application's status was changed by the invocation.
C3_UnpairedScanIs400WithoutStatusChange ==
    \A i \in Invocations :
        (/\ JustReturned(i) /\ ValidCredential(i) /\ WellFormedBody(i)
         /\ inv[i].body.applicationId \in DOMAIN inv[i].pre.applications
         /\ inv[i].pre.applications[inv[i].body.applicationId].user_id = "u1"
         /\ ~ScanPaired(inv[i].pre.security_scans, inv[i].body.scanId,
                        inv[i].body.applicationId)) =>
            /\ inv[i].response.status = 400
            /\ \A s \in DOMAIN security_scans :
                 security_scans[s].status = inv[i].pre.security_scans[s].status
            /\ \A a \in DOMAIN applications :
                 applications[a].status = inv[i].pre.applications[a].status

\* C3, the case: a 400 for a scan of another application whose status the
\* invocation changed.
C3_StatusChangedBeforeRejection ==
    \E i \in Invocations :
        /\ JustReturned(i)
        /\ inv[i].response.status = 400 /\ inv[i].response.error = "Invalid scan request"
        /\ inv[i].scanId \in DOMAIN security_scans
        /\ security_scans[inv[i].scanId].status
             # inv[i].pre.security_scans[inv[i].scanId].status

\* C4: when the caller is not the owner of the application, the answer is 403,
\* the only statement sent to the store is the update of the scan to
\* 'running', applications and vulnerabilities are unchanged and the
\* completion API is not called.
C4_NotOwnerIs403AfterRunningOnly ==
    \A i \in Invocations :
        (/\ inv[i].pc = "done" /\ ValidCredential(i) /\ WellFormedBody(i)
         /\ inv[i].body.applicationId \in DOMAIN inv[i].pre.applications
         /\ inv[i].pre.applications[inv[i].body.applicationId].user_id # "u1") =>
            /\ inv[i].response.status = 403
            /\ Len(inv[i].writes) = 1
            /\ inv[i].writes[1].table = "security_scans"
            /\ inv[i].writes[1].op = "running"
            /\ inv[i].writes[1].id = inv[i].body.scanId
            /\ inv[i].aiCalls = 0
            /\ JustReturned(i) =>
                 /\ applications = inv[i].pre.applications
                 /\ vulnerabilities = inv[i].pre.vulnerabilities
                 /\ \A s \in DOMAIN security_scans :
                      s # inv[i].body.scanId =>
                         security_scans[s] = inv[i].pre.security_scans[s]

\* C4 witness: a 403 after the scan of the request was set to 'running'.
C4_Witness ==
    \E i \in Invocations :
        /\ JustReturned(i)
        /\ inv[i].response.status = 403
        /\ inv[i].scanId \in DOMAIN security_scans
        /\ inv[i].pre.security_scans[inv[i].scanId].status # "running"
        /\ security_scans[inv[i].scanId].status = "running"

\* C5: in every state, a scan whose status is 'completed' has
\* vulnerabilities_found equal to the number of its vulnerability rows.
C5_CompletedScanCountMatchesRows ==
    \A s \in DOMAIN security_scans :
        security_scans[s].status = "completed" =>
            security_scans[s].vulnerabilities_found = Some(CountRows(vulnerabilities, s))

\* C5, the case: a completed scan whose findings have not been inserted yet.
C5_CompletedBeforeInsert ==
    \E i \in Invocations :
        /\ inv[i].pc = "insert_vulnerabilities"
        /\ security_scans[inv[i].scanId].status = "completed"
        /\ security_scans[inv[i].scanId].vulnerabilities_found
             # Some(CountRows(vulnerabilities, inv[i].scanId))

\* Fenced blocks as the claim reads them: fences pair up in order, the first
\* of each pair opens a block, a language tag may follow the opening fence, and
\* the body is what lies between tag and closing fence, without the
\* surrounding whitespace.
FenceIndexes(c) == {k \in 1..Len(c) : c[k] = Fence}

BlockOpenings(c) ==
    {k \in FenceIndexes(c) :
        /\ Cardinality({j \in FenceIndexes(c) : j < k}) % 2 = 0
        /\ \E j \in FenceIndexes(c) : j > k}

BlockClose(c, k) == Min({j \in FenceIndexes(c) : j > k})

BlockTag(c, k) ==
    IF k + 1 < BlockClose(c, k) /\ c[k + 1] \in {"json", "js"} THEN c[k + 1] ELSE ""

BlockBody(c, k) ==
    Trim(SubSeq(c, IF BlockTag(c, k) = "" THEN k + 1 ELSE k + 2, BlockClose(c, k) - 1))

\* The text the claim says is parsed.
ClaimedJsonText(c) ==
    LET tagged == {k \in BlockOpenings(c) : BlockTag(c, k) = "json"}
    IN IF tagged # {} THEN BlockBody(c, Min(tagged))
       ELSE IF BlockOpenings(c) # {} THEN BlockBody(c, Min(BlockOpenings(c)))
       ELSE Trim(c)

\* The completion API answered 200 with a first choice.
CompletionAnswered(i) ==
    inv[i].aiCalls > 0 /\ ~inv[i].aiResponse.thrown /\ inv[i].aiResponse.ok
                       /\ inv[i].aiResponse.hasChoice

\* The content of the answer is not parseable JSON, fences stripped.
ContentUnparseable(i) ==
    \/ ~inv[i].aiResponse.content.isString
    \/ ~JsonParses(JsonStr(inv[i].aiResponse.content.text))

\* C6: when the completion answers 200 with a content that does not parse,
\* the handler uses the fallback (score 50, risk 'medium', one finding),
\* writes vulnerabilities_found = 1, inserts exactly one row, marks scan and
\* application 'completed' and returns the success response.
C6_UnparseableContentFallsBack ==
    \A i \in Invocations :
        (inv[i].pc = "done" /\ CompletionAnswered(i) /\ ContentUnparseable(i)) =>
            /\ inv[i].response.status = 200
            /\ inv[i].response.success
            /\ inv[i].response.results # Null
            /\ inv[i].response.results[1].overall_score = Some(50)
            /\ inv[i].response.results[1].risk_level = Some("medium")
            /\ inv[i].response.results[1].vulnerabilities.kind = "array"
            /\ Len(inv[i].response.results[1].vulnerabilities.items) = 1
            /\ RowsInserted(inv[i].writes) = 1
            /\ Cardinality(WritesTo(i, "vulnerabilities")) = 1
            /\ JustReturned(i) =>
                 /\ security_scans[inv[i].scanId].status = "completed"
                 /\ security_scans[inv[i].scanId].vulnerabilities_found = Some(1)
                 /\ security_scans[inv[i].scanId].overall_score = Some(50)
                 /\ security_scans[inv[i].scanId].risk_level = Some("medium")
                 /\ applications[inv[i].applicationId].status = "completed"
                 /\ CountRows(vulnerabilities, inv[i].scanId)
                      = CountRows(inv[i].pre.vulnerabilities, inv[i].scanId) + 1

\* C6 witness: prose instead of JSON, answered with success.
C6_Witness ==
    \E i \in Invocations :
        /\ JustReturned(i) /\ CompletionAnswered(i)
        /\ inv[i].aiResponse.content = TextContent(<<"text">>)
        /\ inv[i].response.status = 200
        /\ security_scans[inv[i].scanId].vulnerabilities_found = Some(1)

\* C7: the text handed to the JSON parser is the body of the first block
\* tagged json, else the body of the first fenced block, else the whole
\* content; no fence marker is part of it; and when it parses, its object is
\* the result used.
C7_ParsedTextIsBlockBody ==
    \A i \in Invocations :
        (inv[i].jsonStr # Null) =>
            LET text == inv[i].aiResponse.content.text
            IN /\ inv[i].jsonStr[1] = ClaimedJsonText(text)
               /\ \A k \in 1..Len(inv[i].jsonStr[1]) : inv[i].jsonStr[1][k] # Fence
               /\ JsonParses(ClaimedJsonText(text)) =>
                    inv[i].scanResults = Some(JsonParse(ClaimedJsonText(text)))

\* C7, the case of the specification's example: the document inside a block
\* tagged json is extracted and used.
C7_FencedJsonUsed ==
    \E i \in Invocations :
        /\ inv[i].aiResponse.content
             = TextContent(<<Fence, "json", "ws", "V_empty", "ws", Fence>>)
        /\ inv[i].jsonStr = Some(<<"V_empty">>)
        /\ inv[i].scanResults = Some(JsonValue["V_empty"])

\* Number of findings of a success response.
Findings(i) == inv[i].response.results[1].vulnerabilities.length

\* C8: a second invocation for a scan that is already 'completed' is not
\* rejected: it sets the scan to 'running' again, calls the completion API
\* again, and after both returned success with n1 and n2 findings the scan has
\* n1 + n2 vulnerability rows more than before and vulnerabilities_found = n2.
C8_SecondRunAddsSecondBatch ==
    \A i, j \in Invocations :
        (/\ i < j /\ inv[i].pc = "done" /\ inv[i].response.status = 200
         /\ inv[j].pc # "idle" /\ ValidCredential(j) /\ inv[j].body = inv[i].body
         /\ inv[j].pre.security_scans[inv[i].scanId].status = "completed"
         /\ \A k \in Invocations : i < k /\ k < j => inv[k].writes = <<>>) =>
            /\ inv[j].pc \notin {"authenticate", "validate", "mark_running"} =>
                 \E k \in WritesTo(j, "security_scans") :
                    inv[j].writes[k].op = "running" /\ inv[j].writes[k].accepted
            /\ inv[j].pc = "done" => inv[j].aiCalls = 1
            /\ (JustReturned(j) /\ inv[j].response.status = 200) =>
                 /\ CountRows(vulnerabilities, inv[i].scanId)
                      = CountRows(inv[i].pre.vulnerabilities, inv[i].scanId)
                          + Findings(i) + Findings(j)
                 /\ security_scans[inv[i].scanId].vulnerabilities_found
                      = Some(Findings(j))

\* C8, the case: two successes for the same scan, the rows of both batches
\* stored, vulnerabilities_found counting the second batch only.
C8_Witness ==
    \E i, j \in Invocations :
        /\ i < j /\ JustReturned(j)
        /\ inv[i].response.status = 200 /\ inv[j].response.status = 200
        /\ inv[i].scanId = inv[j].scanId
        /\ inv[j].pre.security_scans[inv[j].scanId].status = "completed"
        /\ Findings(i) > 0 /\ Findings(j) > 0
        /\ CountRows(vulnerabilities, inv[j].scanId) = Findings(i) + Findings(j)
        /\ security_scans[inv[j].scanId].vulnerabilities_found = Some(Findings(j))

\* The completion API answered with a non-success status.
CompletionRefused(i) ==
    inv[i].aiCalls > 0 /\ ~inv[i].aiResponse.thrown /\ ~inv[i].aiResponse.ok

\* C9: when the completion API answers with a non-success status the handler
\* returns 500; the scan is still 'running' and the application 'scanning';
\* no terminal scan field is written, no vulnerability row is inserted and no
\* second completion call is made.
C9_CompletionFailureLeavesRunning ==
    \A i \in Invocations :
        (inv[i].pc = "done" /\ CompletionRefused(i)) =>
            /\ inv[i].response.status = 500
            /\ inv[i].aiCalls = 1
            /\ WritesTo(i, "vulnerabilities") = {}
            /\ \A k \in WritesTo(i, "security_scans") : inv[i].writes[k].op = "running"
            /\ \A k \in WritesTo(i, "applications") : inv[i].writes[k].op = "scanning"
            /\ JustReturned(i) =>
                 /\ security_scans[inv[i].scanId].status = "running"
                 /\ applications[inv[i].applicationId].status = "scanning"
                 /\ vulnerabilities = inv[i].pre.vulnerabilities
                 /\ security_scans[inv[i].scanId]
                      = [inv[i].pre.security_scans[inv[i].scanId] EXCEPT
                            !.status = "running",
                            !.started_at = security_scans[inv[i].scanId].started_at]

\* C9 witness: a refused completion call for a scan that an earlier
\* invocation had completed.
C9_Witness ==
    \E i \in Invocations :
        /\ JustReturned(i) /\ CompletionRefused(i)
        /\ inv[i].response.status = 500
        /\ inv[i].pre.security_scans[inv[i].scanId].status = "completed"
        /\ security_scans[inv[i].scanId].status = "running"

\* C10: every response with status 500 carries the generic message and a
\* newly generated errorId and nothing else; neither the exception message nor
\* the upstream error text is in it; every exception ends in such a response.
C10_ServerErrorsAreGeneric ==
    \A i \in Invocations :
        /\ inv[i].thrown # "" => inv[i].response.status = 500
        /\ CompletionRefused(i) => inv[i].response.status = 500
        /\ inv[i].response.status = 500 =>
             /\ inv[i].response.error = GenericError
             /\ inv[i].response.error # inv[i].thrown
             /\ inv[i].response.errorId # Null
             /\ inv[i].response.details = {}
             /\ inv[i].response.results = Null
             /\ ~inv[i].response.success
             /\ \A j \in Invocations :
                  j # i => inv[j].response.errorId # inv[i].response.errorId

\* C10 witness: one 500 from a thrown exception and one from a refused
\* completion call, with different errorIds.
C10_Witness ==
    \E i, j \in Invocations :
        /\ inv[i].response.status = 500 /\ inv[i].thrown # ""
        /\ inv[j].response.status = 500 /\ CompletionRefused(j)

\* The preconditions of a scan request in the order of the specification, and
\* the status each one answers with when it is the first to fail.
Preconditions ==
    <<"credential present", "credential resolves", "body shape",
      "application exists", "caller owns application", "scan paired">>

RejectionStatus == <<401, 401, 400, 404, 403, 400>>

\* Precondition k, decided on the request and on the store the invocation found.
PreconditionHolds(i, k) ==
    LET body == inv[i].body
        pre  == inv[i].pre
    IN CASE k = 1 -> inv[i].authHeader # "none"
         [] k = 2 -> ValidCredential(i)
         [] k = 3 -> WellFormedBody(i)
         [] k = 4 -> body.applicationId \in DOMAIN pre.applications
         [] k = 5 -> /\ body.applicationId \in DOMAIN pre.applications
                     /\ pre.applications[body.applicationId].user_id = "u1"
         [] k = 6 -> /\ body.scanId \in DOMAIN pre.security_scans
                     /\ pre.security_scans[body.scanId].application_id = body.applicationId

\* The first precondition that fails, 0 when all six hold.
FirstFailing(i) ==
    LET failing == {k \in 1..6 : ~PreconditionHolds(i, k)}
    IN IF failing = {} THEN 0 ELSE Min(failing)

\* C11: the six preconditions are evaluated in order; the first that fails
\* alone determines the response (401, 401, 400, 404, 403, 400) and no later
\* check is evaluated.
C11_FirstFailingPreconditionDecides ==
    \A i \in Invocations :
        (inv[i].pc = "done" /\ FirstFailing(i) # 0) =>
            /\ inv[i].response.status = RejectionStatus[FirstFailing(i)]
            /\ inv[i].checks = SubSeq(Preconditions, 1, FirstFailing(i))

\* C11: an authenticated request whose body is not JSON fails the third
\* precondition, yet is answered 500 before the body-shape check is evaluated.
C11_BodyShapeFailureAnswered500 ==
    \E i \in Invocations :
        /\ inv[i].pc = "done" /\ FirstFailing(i) = 3
        /\ ~inv[i].body.json
        /\ inv[i].response.status = 500
        /\ inv[i].checks = SubSeq(Preconditions, 1, 2)

\* The members of a JSON body that are not well-formed identifiers.
ViolatedFields(body) ==
    {f \in {"scanId", "applicationId"} :
        \/ f = "scanId" /\ body.scanId = "not-a-uuid"
        \/ f = "applicationId" /\ body.applicationId = "not-a-uuid"}

\* C12: every authenticated request whose body has not the expected shape, a
\* body that is not JSON included, is answered 400 with the list of the
\* violated fields, and nothing is written.
C12_MalformedBodyIs400WithFields ==
    \A i \in Invocations :
        (inv[i].pc = "done" /\ ValidCredential(i) /\ ~WellFormedBody(i)) =>
            /\ inv[i].response.status = 400
            /\ inv[i].response.details # {}
            /\ inv[i].body.json => inv[i].response.details = ViolatedFields(inv[i].body)
            /\ inv[i].writes = <<>>
            /\ JustReturned(i) =>
                   /\ applications = inv[i].pre.applications
                   /\ security_scans = inv[i].pre.security_scans
                   /\ vulnerabilities = inv[i].pre.vulnerabilities

\* C12: a body that is not JSON makes req.json() throw; the catch block
\* answers 500 with the generic message and no list of fields.
C12_NonJsonBodyIs500 ==
    \E i \in Invocations :
        /\ inv[i].pc = "done" /\ ValidCredential(i) /\ ~inv[i].body.json
        /\ inv[i].thrown # ""
        /\ inv[i].response.status = 500
        /\ inv[i].response.error = GenericError
        /\ inv[i].response.details = {}
        /\ inv[i].writes = <<>>

\* The body-shape precondition on JSON bodies only: what remains of C11 and
\* C12 once the non-JSON body is set aside.
JsonBodiesFollowTheOrder ==
    \A i \in Invocations :
        (inv[i].pc = "done" /\ FirstFailing(i) # 0
            /\ (FirstFailing(i) = 3 => inv[i].body.json)) =>
            /\ inv[i].response.status = RejectionStatus[FirstFailing(i)]
            /\ inv[i].checks = SubSeq(Preconditions, 1, FirstFailing(i))
            /\ FirstFailing(i) = 3 =>
                   /\ inv[i].response.details = ViolatedFields(inv[i].body)
                   /\ inv[i].writes = <<>>

\* Invocations whose statement op on scan s the store accepted.
ScanWriters(s, op) ==
    {i \in Invocations :
        \E k \in 1..Len(inv[i].writes) :
            /\ inv[i].writes[k].table = "security_scans" /\ inv[i].writes[k].op = op
            /\ inv[i].writes[k].id = s /\ inv[i].writes[k].accepted}

\* Vulnerability rows the invocations of S inserted for scan s.
RECURSIVE RowsInsertedBy(_, _)
RowsInsertedBy(S, s) ==
    IF S = {} THEN 0
    ELSE LET i == CHOOSE x \in S : TRUE
         IN (IF inv[i].scanId = s THEN RowsInserted(inv[i].writes) ELSE 0)
              + RowsInsertedBy(S \ {i}, s)

\* Two invocations for the same scan and application are past the checks and
\* still in flight.
InFlightTogether(i, j) ==
    /\ i # j
    /\ inv[i].pc \notin {"idle", "authenticate", "validate", "done"}
    /\ inv[j].pc \notin {"idle", "authenticate", "validate", "done"}

\* C13: invocations that overlap for the same (scanId, applicationId) are not
\* mutually excluded: each one passes the six preconditions and calls the
\* completion API whatever the others do; the scan has the vulnerability rows
\* of all of them while vulnerabilities_found is the length of the list of one.
C13_SameScanNotExcluded ==
    /\ \A i \in Invocations :
           inv[i].pc = "done" => inv[i].checks = Preconditions /\ inv[i].aiCalls = 1
    /\ \A s \in DOMAIN security_scans :
           /\ CountRows(vulnerabilities, s) = RowsInsertedBy(Invocations, s)
           /\ security_scans[s].status = "completed" =>
                  \E i \in ScanWriters(s, "completed") :
                      security_scans[s].vulnerabilities_found
                          = Some(inv[i].scanResults[1].vulnerabilities.length)

\* C13: two invocations for the same pair are in flight together, both have
\* inserted their rows, and the scan has more rows than vulnerabilities_found.
C13_Witness ==
    \E i, j \in Invocations :
        /\ InFlightTogether(i, j)
        /\ inv[i].body = inv[j].body
        /\ inv[i].pc = "mark_completed" /\ inv[j].pc = "mark_completed"
        /\ RowsInserted(inv[i].writes) > 0 /\ RowsInserted(inv[j].writes) > 0
        /\ CountRows(vulnerabilities, inv[i].scanId)
             = RowsInserted(inv[i].writes) + RowsInserted(inv[j].writes)
        /\ security_scans[inv[i].scanId].vulnerabilities_found
             = Some(RowsInserted(inv[i].writes))
        /\ RowsInserted(inv[i].writes) # RowsInserted(inv[j].writes)

\* A scan row with its timestamps reduced to set or not set.
WithoutTimes(row) ==
    [row EXCEPT !.started_at = IF @ = Null THEN Null ELSE Some(0),
                !.completed_at = IF @ = Null THEN Null ELSE Some(0)]

\* The store accepted the invocation's statement op.
Wrote(i, table, op) ==
    \E k \in 1..Len(inv[i].writes) :
        /\ inv[i].writes[k].table = table /\ inv[i].writes[k].op = op
        /\ inv[i].writes[k].accepted

\* What invocation i alone makes of its scan row, as far as it has come.
ScanRowAlone(i) ==
    LET before  == WithoutTimes(inv[i].pre.security_scans[inv[i].scanId])
        running == IF Wrote(i, "security_scans", "running")
                   THEN PatchedScan(before, RunningPatch(0)) ELSE before
    IN IF Wrote(i, "security_scans", "completed")
       THEN PatchedScan(running,
                CompletedPatch(inv[i].scanResults[1], inv[i].scanDuration[1], 0))
       ELSE running

\* The vulnerability rows of its scan that invocation i alone leaves.
ScanVulnerabilitiesAlone(i) ==
    LET IsOfScan(row) == row.scan_id = inv[i].scanId
    IN SelectSeq(inv[i].pre.vulnerabilities, IsOfScan)
         \o (IF Wrote(i, "vulnerabilities", "insert")
             THEN VulnerabilitiesToInsert(inv[i].scanId,
                      inv[i].scanResults[1].vulnerabilities.items)
             ELSE <<>>)

\* No other invocation names the scan of invocation i.
OnlyOneForItsScan(i) ==
    /\ inv[i].scanId \in DOMAIN security_scans
    /\ \A j \in Invocations : j # i => inv[j].scanId # inv[i].scanId

\* C14: when overlapping invocations name different scans, each scan row and
\* each scan's vulnerability rows are, at every step, what the scan's own
\* invocation makes of them alone, whatever the steps of the others in between.
C14_DistinctScansIndependent ==
    \A i \in Invocations :
        OnlyOneForItsScan(i) =>
            LET IsOfScan(row) == row.scan_id = inv[i].scanId
            IN /\ WithoutTimes(security_scans[inv[i].scanId]) = ScanRowAlone(i)
               /\ SelectSeq(vulnerabilities, IsOfScan) = ScanVulnerabilitiesAlone(i)

\* C14: two invocations for different scans are in flight together, both have
\* written their results, the lists differ and each scan has its own.
C14_Witness ==
    \E i, j \in Invocations :
        /\ InFlightTogether(i, j)
        /\ inv[i].scanId # inv[j].scanId
        /\ inv[i].pc = "mark_completed" /\ inv[j].pc = "mark_completed"
        /\ RowsInserted(inv[i].writes) # RowsInserted(inv[j].writes)
        /\ CountRows(vulnerabilities, inv[i].scanId) = RowsInserted(inv[i].writes)
        /\ CountRows(vulnerabilities, inv[j].scanId) = RowsInserted(inv[j].writes)
        /\ security_scans[inv[i].scanId].vulnerabilities_found
             = Some(RowsInserted(inv[i].writes))
        /\ security_scans[inv[j].scanId].vulnerabilities_found
             = Some(RowsInserted(inv[j].writes))

\* The steps of the two lifecycles.
ScanStatusSteps ==
    {<<"pending", "running">>, <<"running", "completed">>, <<"running", "failed">>}

ApplicationStatusSteps ==
    {<<"pending", "scanning">>, <<"scanning", "completed">>, <<"scanning", "failed">>}

\* C15: a scan's status only moves forward along pending -> running ->
\* (completed | failed): every step of the system that changes the status of
\* a scan row is one of these moves.
C15_ScanStatusOnlyForward ==
    [][\A s \in DOMAIN security_scans :
           security_scans'[s].status # security_scans[s].status =>
               <<security_scans[s].status, security_scans'[s].status>> \in ScanStatusSteps]_vars

\* C15: an invocation found its scan 'completed' and has set it to 'running'.
C15_CompletedScanRunsAgain ==
    \E i \in Invocations :
        /\ inv[i].body.scanId \in DOMAIN inv[i].pre.security_scans
        /\ inv[i].pre.security_scans[inv[i].body.scanId].status = "completed"
        /\ inv[i].pc = "fetch_application"
        /\ security_scans[inv[i].body.scanId].status = "running"

\* C16: an application's status only moves forward along pending -> scanning
\* -> (completed | failed): every step of the system that changes the status
\* of an application row is one of these moves, several scans of the same
\* application included.
C16_ApplicationStatusOnlyForward ==
    [][\A a \in DOMAIN applications :
           applications'[a].status # applications[a].status =>
               <<applications[a].status, applications'[a].status>>
                   \in ApplicationStatusSteps]_vars

\* C16: an invocation for another scan of an application that an earlier scan
\* left 'completed' has set the application to 'scanning'.
C16_CompletedApplicationScansAgain ==
    \E i, j \in Invocations :
        /\ i < j /\ inv[i].pc = "done" /\ inv[i].response.status = 200
        /\ inv[j].body.applicationId = inv[i].body.applicationId
        /\ inv[j].body.scanId # inv[i].body.scanId
        /\ inv[j].pre.applications[inv[j].body.applicationId].status = "completed"
        /\ inv[j].pc = "call_completion"
        /\ applications[inv[j].body.applicationId].status = "scanning"

\* Every vulnerability row references an existing scan and every scan row an
\* existing application.
ReferentialIntegrity ==
    /\ \A k \in 1..Len(vulnerabilities) :
           vulnerabilities[k].scan_id \in DOMAIN security_scans
    /\ \A s \in DOMAIN security_scans :
           security_scans[s].application_id \in DOMAIN applications

\* A step that removes an application removes its scans and their
\* vulnerabilities; a step that removes a scan removes its vulnerabilities.
DeletesCascade ==
    /\ \A a \in DOMAIN applications : a \notin DOMAIN applications' =>
           \A s \in DOMAIN security_scans : security_scans[s].application_id = a =>
               /\ s \notin DOMAIN security_scans'
               /\ CountRows(vulnerabilities', s) = 0
    /\ \A s \in DOMAIN security_scans : s \notin DOMAIN security_scans' =>
           CountRows(vulnerabilities', s) = 0

\* C17: referential integrity holds in every reachable state, and a delete of
\* an application or of a scan takes the dependent rows along, also when it
\* falls between two steps of an invocation for that scan.
C17_ReferentialIntegrityUnderDeletes ==
    []ReferentialIntegrity /\ [][DeletesCascade]_vars

\* C17: an invocation inserted rows for its scan and returned; the scan's
\* application was deleted while a later invocation was past its 'running'
\* update; that invocation's insert was rejected and no row is left.
C17_Witness ==
    \E i, j \in Invocations :
        /\ inv[i].pc = "done" /\ inv[i].response.status = 200
        /\ RowsInserted(inv[i].writes) > 0
        /\ inv[i].scanId \notin DOMAIN security_scans
        /\ inv[i].applicationId \notin DOMAIN applications
        /\ Wrote(j, "security_scans", "running")
        /\ Wrote(j, "applications", "scanning")
        /\ \E k \in WritesTo(j, "vulnerabilities") : ~inv[j].writes[k].accepted
        /\ vulnerabilities = <<>>

\* The completion API answered with a success status, whatever the body.
CompletionSucceeded(i) ==
    inv[i].aiCalls > 0 /\ ~inv[i].aiResponse.thrown /\ inv[i].aiResponse.ok

\* C18: for every completion response with a success status, whatever its
\* content (text that does not parse, JSON that is not an object, an object
\* without a vulnerabilities list, no first choice), the pipeline proceeds:
\* scan and application are marked 'completed' and success is returned.
C18_AnySuccessfulCompletionProceeds ==
    \A i \in Invocations :
        (JustReturned(i) /\ CompletionSucceeded(i)) =>
            /\ inv[i].response.status = 200
            /\ security_scans[inv[i].scanId].status = "completed"
            /\ applications[inv[i].applicationId].status = "completed"

\* C18: the content parses to an object without a vulnerabilities list; the
\* handler throws while it builds the scan update and answers 500, the scan
\* left 'running' and the application 'scanning'.
C18_ParsedButNoListIs500 ==
    \E i \in Invocations :
        /\ JustReturned(i) /\ CompletionSucceeded(i) /\ inv[i].aiResponse.hasChoice
        /\ ~ContentUnparseable(i)
        /\ inv[i].scanResults[1].type = "object"
        /\ inv[i].scanResults[1].vulnerabilities.kind = "undefined"
        /\ inv[i].thrown # ""
        /\ inv[i].response.status = 500
        /\ security_scans[inv[i].scanId].status = "running"
        /\ applications[inv[i].applicationId].status = "scanning"

\* The invocation has started and no later one has: what differs in the store
\* from what it found is its own doing.
LatestStarted(i) ==
    /\ inv[i].pc # "idle"
    /\ \A j \in Invocations : j > i => inv[j].pc = "idle"

\* C19: no invocation changes a security_scans row unless the authenticated
\* caller owns the application the scan belongs to: a user who names another
\* user's scan cannot alter its status or timestamps.
C19_OnlyOwnersScansChange ==
    \A i \in Invocations :
        LatestStarted(i) =>
            \A s \in DOMAIN security_scans :
                security_scans[s] # inv[i].pre.security_scans[s] =>
                    /\ ValidCredential(i)
                    /\ inv[i].pre.applications[security_scans[s].application_id].user_id
                         = "u1"

\* C19: caller u1 named the scan s3 of u2's application; the request was
\* rejected, and s3 is 'running' with a start time.
C19_OtherUsersScanSetRunning ==
    \E i \in Invocations :
        /\ inv[i].pc = "done" /\ ValidCredential(i) /\ LatestStarted(i)
        /\ inv[i].body.scanId = "s3"
        /\ inv[i].response.status \in {400, 403, 404}
        /\ inv[i].pre.security_scans["s3"].status = "pending"
        /\ security_scans["s3"].status = "running"
        /\ security_scans["s3"].started_at # Null
        /\ applications[security_scans["s3"].application_id].user_id = "u2"

\* C20: whenever the handler returns success the store holds what was
\* reported: the scan is 'completed' with the returned overall_score and
\* risk_level, there is one new vulnerability row per returned finding, and
\* the store rejected none of the invocation's statements.
C20_SuccessMeansStored ==
    \A i \in Invocations :
        (JustReturned(i) /\ inv[i].response.status = 200) =>
            LET results == inv[i].response.results[1]
                scan    == security_scans[inv[i].scanId]
            IN /\ scan.status = "completed"
               /\ scan.overall_score = results.overall_score
               /\ scan.risk_level = results.risk_level
               /\ CountRows(vulnerabilities, inv[i].scanId)
                    = CountRows(inv[i].pre.vulnerabilities, inv[i].scanId)
                        + results.vulnerabilities.length
               /\ \A k \in 1..Len(inv[i].writes) : inv[i].writes[k].accepted

\* C20: the store rejected the scan update (overall_score outside 0..100);
\* the handler returned success and the scan is still 'running' without score.
C20_SuccessAfterRejectedScanUpdate ==
    \E i \in Invocations :
        /\ JustReturned(i) /\ inv[i].response.status = 200
        /\ \E k \in WritesTo(i, "security_scans") :
               inv[i].writes[k].op = "completed" /\ ~inv[i].writes[k].accepted
        /\ security_scans[inv[i].scanId].status = "running"
        /\ security_scans[inv[i].scanId].overall_score
             # inv[i].response.results[1].overall_score

\* The statements an invocation has sent to the store, in the order sent.
StatementsSent(i) ==
    [k \in 1..Len(inv[i].writes) |-> <<inv[i].writes[k].table, inv[i].writes[k].op>>]

\* The statements of a successful invocation with a list of n findings.
StatementsOfSuccess(n) ==
    <<  <<"security_scans", "running">>, <<"applications", "scanning">>,
        <<"security_scans", "completed">> >>
      \o (IF n > 0 THEN << <<"vulnerabilities", "insert">> >> ELSE <<>>)
      \o << <<"applications", "completed">> >>

\* C21: within one invocation the writes happen in this order, one at a time:
\* scan -> 'running', application -> 'scanning', the completion call, the
\* scan's terminal fields, the vulnerability insert (when the list is not
\* empty), application -> 'completed'; so when the application has been set to
\* 'completed' the terminal update and the insert have been sent.
C21_WritesInOrder ==
    \A i \in Invocations :
        LET sent == StatementsSent(i)
            n    == inv[i].scanResults[1].vulnerabilities.length
        IN /\ inv[i].pc = "call_completion" =>
                  sent = SubSeq(StatementsOfSuccess(0), 1, 2) /\ inv[i].aiCalls = 0
           /\ inv[i].pc = "update_scan" =>
                  sent = SubSeq(StatementsOfSuccess(0), 1, 2) /\ inv[i].aiCalls = 1
           /\ inv[i].pc = "insert_vulnerabilities" =>
                  sent = SubSeq(StatementsOfSuccess(0), 1, 3) /\ inv[i].aiCalls = 1
           /\ inv[i].pc = "mark_completed" =>
                  /\ sent = SubSeq(StatementsOfSuccess(n), 1, Len(StatementsOfSuccess(n)) - 1)
                  /\ inv[i].aiCalls = 1
           /\ (inv[i].pc = "done" /\ inv[i].response.status = 200) =>
                  sent = StatementsOfSuccess(n) /\ inv[i].aiCalls = 1
           /\ (\E k \in 1..Len(sent) : sent[k] = <<"applications", "completed">>) =>
                  inv[i].response.status = 200

\* C21: a successful invocation with findings has sent all five statements.
C21_Witness ==
    \E i \in Invocations :
        /\ inv[i].pc = "done" /\ inv[i].response.status = 200
        /\ inv[i].scanResults[1].vulnerabilities.length = 2
        /\ Len(inv[i].writes) = 5
        /\ \A k \in 1..5 : inv[i].writes[k].accepted

\* No row of the store has status 'failed'.
NothingFailed ==
    /\ \A s \in DOMAIN security_scans : security_scans[s].status # "failed"
    /\ \A a \in DOMAIN applications : applications[a].status # "failed"

\* The invocation ended in an error response and left its scan 'running'.
LeftRunning(i) ==
    /\ inv[i].pc = "done" /\ inv[i].response.status # 200
    /\ Wrote(i, "security_scans", "running")
    /\ ~Wrote(i, "security_scans", "completed")

\* No invocation is in flight.
AllQuiet == \A i \in Invocations : inv[i].pc \in {"idle", "done"}

Positions ==
    <<"idle", "authenticate", "validate", "mark_running", "fetch_application",
      "verify_scan", "mark_scanning", "call_completion", "update_scan",
      "insert_vulnerabilities", "mark_completed", "done">>

PositionOf(pc) == CHOOSE k \in 1..Len(Positions) : Positions[k] = pc

\* Every awaited call returning, an invocation that has started ends with the
\* success response or with one error response.
EveryInvocationEnds ==
    \A i \in Invocations :
        (inv[i].pc # "idle") ~>
            (inv[i].pc = "done"
                /\ inv[i].response.status \in {200, 400, 401, 403, 404, 500})

\* An invocation under way can always take its next step, and one that has
\* ended holds one of the handler's responses.
NeverStuck ==
    \A i \in Invocations :
        /\ inv[i].pc \notin {"idle", "done"} => ENABLED Step(i)
        /\ inv[i].pc = "done" =>
               inv[i].response.status \in {200, 400, 401, 403, 404, 500}
        /\ inv[i].aiCalls <= 1

\* C23: every invocation ends with exactly one response and makes at most one
\* completion call: an invocation under way can always take its next step,
\* each step moves it forward in the handler's text (no loop, no second
\* attempt of a step), so it ends after at most eleven steps; it ends with the
\* success response or one error response, never replaced afterwards.
C23_TerminatesWithOneResponse ==
    /\ []NeverStuck
    /\ [][\A i \in Invocations :
              inv'[i] # inv[i] =>
                  /\ PositionOf(inv'[i].pc) > PositionOf(inv[i].pc)
                  /\ inv[i].response = NoResponse]_vars

\* C23: an invocation that called the completion API once has ended.
C23_Witness ==
    \E i \in Invocations :
        /\ inv[i].pc = "done" /\ inv[i].aiCalls = 1
        /\ inv[i].response.status \in {200, 500}
        /\ Len(inv[i].writes) >= 2

\* The invocation is past its insert step.
PastInsert(i) ==
    \/ inv[i].pc = "mark_completed"
    \/ inv[i].pc = "done" /\ inv[i].response.status = 200

\* One row per finding of the invocation's list, for the scan of the request,
\* with status 'open'.
RowsOfFindings(i) ==
    LET list == inv[i].scanResults[1].vulnerabilities
    IN [k \in 1..list.length |->
           [scan_id |-> inv[i].body.scanId, severity |-> list.items[k].severity,
            title |-> list.items[k].title,
            affected_component |-> list.items[k].affected_component,
            status |-> "open"]]

\* C24: vulnerability rows are created only by the handler, exactly one row
\* per finding of the parsed-or-fallback list, each with the request's scanId
\* and status 'open'; the handler never updates or deletes a row that exists,
\* and a user session cannot insert rows: at every moment the table is what
\* the latest invocation found, followed by one row per finding once that
\* invocation is past its insert.
C24_RowsAreTheFindings ==
    /\ (\A i \in Invocations : inv[i].pc = "idle") => vulnerabilities = <<>>
    /\ \A i \in Invocations :
           LatestStarted(i) =>
               vulnerabilities = inv[i].pre.vulnerabilities
                                   \o (IF PastInsert(i) THEN RowsOfFindings(i) ELSE <<>>)

\* What remains of C24 when a refused insert is set aside: the rows appear
\* only with an insert of the handler that the store accepted.
RowsAreTheAcceptedFindings ==
    /\ (\A i \in Invocations : inv[i].pc = "idle") => vulnerabilities = <<>>
    /\ \A i \in Invocations :
           LatestStarted(i) =>
               vulnerabilities = inv[i].pre.vulnerabilities
                                   \o (IF PastInsert(i) /\ Wrote(i, "vulnerabilities", "insert")
                                       THEN RowsOfFindings(i) ELSE <<>>)

\* C24: the handler answered success with a list of one finding and the
\* table has no row more than before: the store refused the insert.
C24_FindingWithoutRow ==
    \E i \in Invocations :
        /\ LatestStarted(i) /\ inv[i].pc = "done" /\ inv[i].response.status = 200
        /\ inv[i].response.results[1].vulnerabilities.length = 1
        /\ \E k \in WritesTo(i, "vulnerabilities") : ~inv[i].writes[k].accepted
        /\ vulnerabilities = inv[i].pre.vulnerabilities

\* The scans of application a that are 'running'.
RunningScans(a) ==
    {s \in DOMAIN security_scans :
        security_scans[s].application_id = a /\ security_scans[s].status = "running"}

\* C25: at most one scan per application is active at any time: for each
\* application at most one of its scans is 'running', also when the handler
\* is invoked for two scans of the same application, and an application that
\* is 'completed' has no scan 'running'.
C25_AtMostOneRunningScan ==
    \A a \in DOMAIN applications :
        /\ Cardinality(RunningScans(a)) <= 1
        /\ applications[a].status = "completed" => RunningScans(a) = {}

\* C25: two invocations for the two scans of a1 are in flight together and
\* both scans are 'running'.
C25_TwoScansRunning ==
    \E i, j \in Invocations :
        /\ InFlightTogether(i, j)
        /\ inv[i].scanId = "s1" /\ inv[j].scanId = "s2"
        /\ inv[i].applicationId = inv[j].applicationId
        /\ RunningScans(inv[i].applicationId) = {"s1", "s2"}

\* The request has no credential or one that resolves to no user.
NoValidCredential(i) == inv[i].authHeader \in {"none", "Bearer stale"}

\* C26: the earlier handler answers a request with a missing or invalid
\* credential with 401 and writes nothing to security_scans, applications or
\* vulnerabilities.
C26_LegacyUnauthenticatedIs401 ==
    \A i \in Invocations :
        (inv[i].pc = "done" /\ NoValidCredential(i)) =>
            /\ inv[i].response.status = 401
            /\ inv[i].writes = <<>>
            /\ JustReturned(i) =>
                   /\ applications = inv[i].pre.applications
                   /\ security_scans = inv[i].pre.security_scans
                   /\ vulnerabilities = inv[i].pre.vulnerabilities

\* C26: a request without credential for u2's scan and application ran the
\* whole pipeline of the earlier handler: success, scan 'completed', rows
\* inserted.
C26_LegacyScanWithoutCredential ==
    \E i \in Invocations :
        /\ JustReturned(i) /\ inv[i].authHeader = "none"
        /\ inv[i].body.scanId = "s3" /\ inv[i].body.applicationId = "a2"
        /\ inv[i].response.status = 200
        /\ security_scans["s3"].status = "completed"
        /\ applications["a2"].status = "completed"
        /\ CountRows(vulnerabilities, "s3") > CountRows(inv[i].pre.vulnerabilities, "s3")

\* The body names, by a well-formed identifier, an application that the
\* store does not have.
UnknownApplication(i) ==
    /\ inv[i].body.json
    /\ inv[i].body.applicationId # "not-a-uuid"
    /\ inv[i].body.applicationId \notin DOMAIN inv[i].pre.applications

\* C27: every error response of the earlier handler carries only the generic
\* message and a correlation identifier, never the text of the internal
\* error, and an unknown application is answered with status 404.
C27_LegacyErrorsAreGeneric ==
    \A i \in Invocations :
        (inv[i].pc = "done" /\ inv[i].response.status # 200) =>
            /\ inv[i].response.error = GenericError
                 \/ inv[i].response.status \in {400, 401, 403, 404}
            /\ inv[i].thrown # "" =>
                   /\ inv[i].response.error # inv[i].thrown
                   /\ inv[i].response.errorId # Null
            /\ UnknownApplication(i) => inv[i].response.status = 404

\* C27: the earlier handler answers a request for an unknown application with
\* status 500 and the text 'Application not found', without an identifier.
C27_LegacyLeaksNotFound ==
    \E i \in Invocations :
        /\ inv[i].pc = "done" /\ UnknownApplication(i)
        /\ inv[i].response.status = 500
        /\ inv[i].response.error = "Application not found"
        /\ inv[i].response.errorId = Null

\* The function was invoked for submission i.
HandlerInvoked(i) == inv[i].pc # "idle"

\* The two inserts of submission i, in the order sent, both accepted.
BothInserted(i) ==
    /\ inv[i].client.app # Null
    /\ inv[i].client.scan # Null
    /\ inv[i].client.writes =
         <<Write("applications", "insert", inv[i].client.app[1], TRUE, 1),
           Write("security_scans", "insert", inv[i].client.scan[1], TRUE, 1)>>

\* C28: handleSubmit invokes the scan handler only after it inserted the
\* application row (pending, owned by the session user) and then the scan row
\* (pending, of that application), both successfully, and with exactly the
\* identifiers of those two rows; after a failed insert it does not invoke
\* the handler.
C28_InvokedOnlyAfterBothInserts ==
    \A i \in Invocations :
        LET client == inv[i].client
        IN /\ HandlerInvoked(i) =>
                /\ BothInserted(i)
                /\ client.app[1] \in DOMAIN inv[i].pre.applications
                /\ inv[i].pre.applications[client.app[1]].user_id = client.session[1]
                /\ inv[i].pre.applications[client.app[1]].status = "pending"
                /\ client.scan[1] \in DOMAIN inv[i].pre.security_scans
                /\ inv[i].pre.security_scans[client.scan[1]].application_id = client.app[1]
                /\ inv[i].pre.security_scans[client.scan[1]].status = "pending"
                /\ client.invoked = Some([json |-> TRUE, scanId |-> client.scan[1],
                                          applicationId |-> client.app[1]])
                /\ inv[i].pc \notin {"authenticate", "validate"} =>
                       /\ inv[i].body.scanId = client.scan[1]
                       /\ inv[i].body.applicationId = client.app[1]
           /\ (\E k \in 1..Len(client.writes) : ~client.writes[k].accepted) =>
                /\ ~HandlerInvoked(i)
                /\ client.invoked = Null
                /\ client.pc = "done"

\* C28: the first submission inserted both rows and its invocation scanned
\* them; the second lost its scan insert and ended without an invocation.
C28_Witness ==
    /\ MaxInvocations >= 2
    /\ inv[1].client.pc = "done" /\ inv[1].pc = "done"
    /\ inv[1].response.status = 200
    /\ inv[1].body = [json |-> TRUE, scanId |-> NewScanId(1),
                      applicationId |-> NewApplicationId(1)]
    /\ security_scans[NewScanId(1)].status = "completed"
    /\ inv[2].client.pc = "done" /\ inv[2].pc = "idle"
    /\ NewApplicationId(2) \in DOMAIN applications
    /\ NewScanId(2) \notin DOMAIN security_scans
    /\ Len(inv[2].client.writes) = 2

\* The durations Math.floor(Math.random() * 60) + 30 can give.
Durations == {ScanDuration(floor) : floor \in RandomFloors}

\* Whatever the clock shows and whatever the gateway answers, every duration
\* can be the one drawn at the completion step.
DurationChosenFreely ==
    \A i \in Invocations :
        inv[i].pc = "call_completion" =>
            \A floor \in RandomFloors : ENABLED Complete(i, AiResponses, {floor})

\* C29: after a successful invocation the scan's vulnerabilities_found is the
\* length of the list in the returned results, and its scan_duration is the
\* integer between 30 and 90 that was drawn, a draw that does not depend on
\* started_at and completed_at.
C29_SuccessStoresCountAndDrawnDuration ==
    /\ DurationChosenFreely
    /\ \A i \in Invocations :
        (JustReturned(i) /\ inv[i].response.status = 200) =>
            LET results == inv[i].response.results[1]
                scan    == security_scans[inv[i].scanId]
            IN /\ scan.vulnerabilities_found = Some(results.vulnerabilities.length)
               /\ scan.scan_duration = inv[i].scanDuration
               /\ scan.scan_duration[1] \in Durations
               /\ scan.scan_duration[1] >= 30 /\ scan.scan_duration[1] <= 90

\* The same for the invocations whose update of the scan was accepted.
StoredCountAndDuration ==
    /\ DurationChosenFreely
    /\ \A i \in Invocations :
        (/\ JustReturned(i) /\ inv[i].response.status = 200
         /\ \A k \in WritesTo(i, "security_scans") : inv[i].writes[k].accepted) =>
            LET results == inv[i].response.results[1]
                scan    == security_scans[inv[i].scanId]
            IN /\ scan.vulnerabilities_found = Some(results.vulnerabilities.length)
               /\ scan.scan_duration = inv[i].scanDuration
               /\ scan.scan_duration[1] \in Durations
               /\ scan.scan_duration[1] >= 30 /\ scan.scan_duration[1] <= 90
               /\ scan.scan_duration[1] # scan.completed_at[1] - scan.started_at[1]

\* C29: a successful invocation returned a finding while the scan row still
\* counts none and has no duration, its update having been refused.
C29_SuccessWithoutCountAndDuration ==
    \E i \in Invocations :
        /\ JustReturned(i) /\ inv[i].response.status = 200
        /\ inv[i].response.results[1].vulnerabilities.length > 0
        /\ security_scans[inv[i].scanId].vulnerabilities_found = Some(0)
        /\ security_scans[inv[i].scanId].scan_duration = Null
        /\ inv[i].scanDuration # Null

====
